---- MODULE Spec2Model ----
(***************************************************************************)
(* Model of py_proc (src/src/py_proc/proc.py): Proc, a wrapper around a    *)
(* callable with arity inspection, composition and currying, and its two   *)
(* curried subclasses FCurriedProc (fixed arity) and VCurriedProc          *)
(* (variable arity).                                                       *)
(*                                                                         *)
(* Values are tagged records:                                              *)
(*   [t |-> "int", n]                an argument supplied by the caller    *)
(*   [t |-> "fn", id, params]        a plain Python callable               *)
(*   [t |-> "closure", op, self, proc]  the lambda built by >> or <<       *)
(*   [t |-> "Proc", callback, parameters, arity, is_variadic]              *)
(*   [t |-> "ref", id]               a curried proc object (heap[id])      *)
(*   [t |-> "res", fn, args]         what callable fn returns for args     *)
(*   [t |-> "err", cls, why]         a raised exception                    *)
(*   [t |-> "none"]                  nothing yet                           *)
(* A plain Proc never changes after __init__, so it is carried as a value; *)
(* the curried procs rebind self.argv and live in the heap.                *)
(*                                                                         *)
(* Four specifications drive the same operations:                          *)
(*   Spec         one expression Proc(c).m1(..).m2(..)... on a fresh Proc  *)
(*   SpecCompose  two procs are built, composed, and the composition is    *)
(*                invoked repeatedly                                       *)
(*   SpecArity    Proc(c) for every declared parameter list                *)
(*   SpecObjects  a curried proc is kept in a variable and curried, called *)
(*                and invoked repeatedly                                   *)
(***************************************************************************)
EXTENDS Integers, Sequences, FiniteSets, TLC

VARIABLES heap, made, ret, held, chain

vars == <<heap, made, ret, held, chain>>

(***************************************************************************)
(* Bounds of the model.                                                    *)
(***************************************************************************)
MaxObjs == 3
MaxArgv == 4
MaxChain == 4
MaxParams == 3
MaxTotal == 3

Vals == {1, 2}

IntV(n) == [t |-> "int", n |-> n]

\* The argument lists a caller passes in one application: 0, 1 or 2 values.
Groups ==
  {<<>>} \cup {<<IntV(a)>> : a \in Vals}
         \cup {<<IntV(a), IntV(b)>> : a \in Vals, b \in Vals}

None == [t |-> "none"]

Ref(i) == [t |-> "ref", id |-> i]

Err(cls, why) == [t |-> "err", cls |-> cls, why |-> why]

(***************************************************************************)
(* inspect.Parameter: the kind of a parameter and whether it has a default *)
(***************************************************************************)
Kinds ==
  {"POSITIONAL_ONLY", "POSITIONAL_OR_KEYWORD", "VAR_POSITIONAL",
   "KEYWORD_ONLY", "VAR_KEYWORD"}

Param(kind, has_default) == [kind |-> kind, has_default |-> has_default]

P == Param("POSITIONAL_OR_KEYWORD", FALSE)

D == Param("POSITIONAL_OR_KEYWORD", TRUE)

Star == Param("VAR_POSITIONAL", FALSE)

(***************************************************************************)
(* The arity inspector: min_num_args, count_required, is_var_positional,   *)
(* is_variadic.                                                            *)
(***************************************************************************)
\* count_required(tally, param): the list `required` holds the two kinds.
count_required(tally, param) ==
  IF param.kind \in {"POSITIONAL_OR_KEYWORD", "VAR_POSITIONAL"}
  THEN tally + 1
  ELSE tally

\* reduce(count_required, parameters, 0) as a left fold.
RECURSIVE reduce_count(_, _)
reduce_count(params, tally) ==
  IF params = <<>>
  THEN tally
  ELSE reduce_count(Tail(params), count_required(tally, Head(params)))

min_num_args(params) == reduce_count(params, 0)

is_var_positional(param) == param.kind = "VAR_POSITIONAL"

is_variadic(params) == \E i \in 1..Len(params) : is_var_positional(params[i])

(***************************************************************************)
(* Callables.  inspect.signature reads the declared parameters of a plain  *)
(* callable; the lambdas built by >> and << are declared as lambda *args.  *)
(***************************************************************************)
Fn(id, params) == [t |-> "fn", id |-> id, params |-> params]

Closure(op, self, proc) == [t |-> "closure", op |-> op, self |-> self, proc |-> proc]

signature(callback) ==
  IF callback.t = "fn" THEN callback.params ELSE <<Star>>

\* Proc.__init__
ProcInit(callback) ==
  [t |-> "Proc",
   callback |-> callback,
   parameters |-> signature(callback),
   arity |-> min_num_args(signature(callback)),
   is_variadic |-> is_variadic(signature(callback))]

(***************************************************************************)
(* The host language's call of a plain callable with positional arguments: *)
(* the arguments bind when every positional parameter without a default    *)
(* gets one, none is left over unless a *rest parameter takes it, and no   *)
(* keyword-only parameter lacks a default.  Otherwise TypeError.           *)
(***************************************************************************)
Positional(params) ==
  {i \in 1..Len(params) :
     params[i].kind \in {"POSITIONAL_ONLY", "POSITIONAL_OR_KEYWORD"}}

Binds(params, n) ==
  /\ Cardinality({i \in Positional(params) : ~params[i].has_default}) <= n
  /\ \/ n <= Cardinality(Positional(params))
     \/ \E i \in 1..Len(params) : params[i].kind = "VAR_POSITIONAL"
  /\ \A i \in 1..Len(params) :
        params[i].kind = "KEYWORD_ONLY" => params[i].has_default

Res(id, args) == [t |-> "res", fn |-> id, args |-> args]

\* The callable "hof" returns a unary function; every other one returns data.
Body(fn, args) ==
  IF fn.id = "hof" THEN Fn("inner", <<P>>) ELSE Res(fn.id, args)

\* A host that drops surplus arguments instead of raising.
CallFn_Lenient(fn, args) == Body(fn, args)

CallFn(fn, args) ==
  IF Binds(fn.params, Len(args))
  THEN Body(fn, args)
  ELSE Err("TypeError", "arity")

(***************************************************************************)
(* Objects.  A curried proc is a heap record with the fields __init__      *)
(* sets; an operation returns the new heap and the value it returns (or    *)
(* the exception it raises).                                               *)
(***************************************************************************)
Out(h, v) == [heap |-> h, ret |-> v]

Curried(cls, callback, args) ==
  LET p == ProcInit(callback)
  IN [cls |-> cls,
      callback |-> p.callback,
      parameters |-> p.parameters,
      arity |-> p.arity,
      is_variadic |-> p.is_variadic,
      argv |-> args]

\* FCurriedProc.__init__
FCurriedProc_init(callback, args) == Curried("FCurriedProc", callback, args)

\* VCurriedProc.__init__
VCurriedProc_init(callback, args) == Curried("VCurriedProc", callback, args)

\* The object a value denotes: a Proc value itself, or the heap record.
Obj(h, x) == IF x.t = "ref" THEN h[x.id] ELSE x

ClassOf(h, x) ==
  CASE x.t = "Proc" -> "Proc"
    [] x.t = "ref" -> h[x.id].cls
    [] OTHER -> "other"

\* An update that puts the new arguments in front of the buffer.
Extend_InFront(h, id, args) == [h EXCEPT ![id].argv = args \o @]

\* self.argv += args rebinds the attribute to the concatenation.
Extend(h, id, args) == [h EXCEPT ![id].argv = @ \o args]

RECURSIVE Apply(_, _, _)
RECURSIVE CallMethod(_, _, _)

\* Proc.call
Proc_call(h, self, args) == Apply(h, Obj(h, self).callback, args)

\* Proc.__call__
Proc__call__(h, self, args) == CallMethod(h, self, args)

\* A threshold of <= in place of <: the callable runs one application late.
FCurriedProc_call_Late(h, self, args) ==
  LET h1 == Extend(h, self.id, args)
  IN IF Len(h1[self.id].argv) <= h1[self.id].arity
     THEN Out(h1, self)
     ELSE Apply(h1, h1[self.id].callback, h1[self.id].argv)

\* A call that leaves the receiver alone and, below arity, returns a new
\* instance holding the longer buffer.
FCurriedProc_call_Fresh(h, self, args) ==
  LET argv == h[self.id].argv \o args
  IN IF Len(argv) < h[self.id].arity
     THEN Out(Append(h, FCurriedProc_init(h[self.id].callback, argv)),
              Ref(Len(h) + 1))
     ELSE Apply(h, h[self.id].callback, argv)

\* A call that forwards only the first arity-many arguments of the buffer.
FCurriedProc_call_Truncating(h, self, args) ==
  LET h1 == Extend(h, self.id, args)
  IN IF Len(h1[self.id].argv) < h1[self.id].arity
     THEN Out(h1, self)
     ELSE Apply(h1, h1[self.id].callback,
                SubSeq(h1[self.id].argv, 1, h1[self.id].arity))

\* A call that, given no arguments, returns the receiver without invoking.
FCurriedProc_call_IdleWhenEmpty(h, self, args) ==
  LET h1 == Extend(h, self.id, args)
  IN IF args = <<>> \/ Len(h1[self.id].argv) < h1[self.id].arity
     THEN Out(h1, self)
     ELSE Apply(h1, h1[self.id].callback, h1[self.id].argv)

\* FCurriedProc.call
FCurriedProc_call(h, self, args) ==
  LET h1 == Extend(h, self.id, args)
  IN IF Len(h1[self.id].argv) < h1[self.id].arity
     THEN Out(h1, self)
     ELSE Apply(h1, h1[self.id].callback, h1[self.id].argv)

\* A direct invocation that runs the callable, as call does.
VCurriedProc__call__Invoking(h, self, args) ==
  LET h1 == Extend(h, self.id, args)
  IN Out(h1, CallFn(h1[self.id].callback, h1[self.id].argv))

\* VCurriedProc.__call__
VCurriedProc__call__(h, self, args) == Out(Extend(h, self.id, args), self)

\* A call that takes its arguments back out of the buffer when the
\* callable raises.
VCurriedProc_call_RollingBack(h, self, args) ==
  LET h1 == Extend(h, self.id, args)
      r == Apply(h1, h1[self.id].callback, h1[self.id].argv)
  IN IF r.ret.t = "err" THEN Out(h, r.ret) ELSE r

\* A call that passes the callable only the arguments of this call.
VCurriedProc_call_ArgsOnly(h, self, args) ==
  LET h1 == Extend(h, self.id, args)
  IN Apply(h1, h1[self.id].callback, args)

\* VCurriedProc.call
VCurriedProc_call(h, self, args) ==
  LET h1 == Extend(h, self.id, args)
  IN Apply(h1, h1[self.id].callback, h1[self.id].argv)

\* x.call(*args): the method the class of x defines.
CallMethod(h, x, args) ==
  CASE ClassOf(h, x) = "Proc" -> Proc_call(h, x, args)
    [] ClassOf(h, x) = "FCurriedProc" -> FCurriedProc_call(h, x, args)
    [] ClassOf(h, x) = "VCurriedProc" -> VCurriedProc_call(h, x, args)
    [] OTHER -> Out(h, Err("AttributeError", "call"))

\* The lambda of __rshift__ is proc(self(*args)), that of __lshift__ is
\* self(proc(*args)); an exception of the inner call ends the outer one.
ClosureCall(h, c, args) ==
  LET inner == IF c.op = "rshift" THEN c.self ELSE c.proc
      outer == IF c.op = "rshift" THEN c.proc ELSE c.self
      r == Apply(h, inner, args)
  IN IF r.ret.t = "err" THEN r ELSE Apply(r.heap, outer, <<r.ret>>)

\* x(*args)
Apply(h, x, args) ==
  CASE x.t = "fn" -> Out(h, CallFn(x, args))
    [] x.t = "closure" -> ClosureCall(h, x, args)
    [] ClassOf(h, x) = "VCurriedProc" -> VCurriedProc__call__(h, x, args)
    [] ClassOf(h, x) \in {"Proc", "FCurriedProc"} -> Proc__call__(h, x, args)
    [] OTHER -> Out(h, Err("TypeError", "not callable"))

\* The dispatch of Proc.curry with its two branches exchanged.
Proc_curry_Flipped(h, self, args) ==
  IF self.is_variadic
  THEN Out(Append(h, FCurriedProc_init(self.callback, args)), Ref(Len(h) + 1))
  ELSE Out(Append(h, VCurriedProc_init(self.callback, args)), Ref(Len(h) + 1))

\* Proc.curry
Proc_curry(h, self, args) ==
  IF self.is_variadic
  THEN Out(Append(h, VCurriedProc_init(self.callback, args)), Ref(Len(h) + 1))
  ELSE Out(Append(h, FCurriedProc_init(self.callback, args)), Ref(Len(h) + 1))

\* A curry that applies the arguments to the receiver itself.
FCurriedProc_curry_InPlace(h, self, args) == FCurriedProc_call(h, self, args)

\* A curry that starts over from the buffer the receiver was constructed
\* with.
FCurriedProc_curry_FromOriginal(h, self, args) ==
  LET h1 == Append(h, FCurriedProc_init(h[self.id].callback, made[self.id]))
  IN FCurriedProc_call(h1, Ref(Len(h1)), args)

\* FCurriedProc.curry
FCurriedProc_curry(h, self, args) ==
  LET h1 == Append(h, FCurriedProc_init(h[self.id].callback, h[self.id].argv))
  IN FCurriedProc_call(h1, Ref(Len(h1)), args)

\* A curry that extends the receiver in place and returns it.
VCurriedProc_curry_InPlace(h, self, args) == Out(Extend(h, self.id, args), self)

\* VCurriedProc.curry
VCurriedProc_curry(h, self, args) ==
  Out(Append(h, VCurriedProc_init(h[self.id].callback, h[self.id].argv \o args)),
      Ref(Len(h) + 1))

\* x.curry(*args)
CurryMethod(h, x, args) ==
  CASE ClassOf(h, x) = "Proc" -> Proc_curry(h, x, args)
    [] ClassOf(h, x) = "FCurriedProc" -> FCurriedProc_curry(h, x, args)
    [] ClassOf(h, x) = "VCurriedProc" -> VCurriedProc_curry(h, x, args)
    [] OTHER -> Out(h, Err("AttributeError", "curry"))

\* >> composing in the order of <<.
Proc__rshift__Backward(self, proc) == ProcInit(Closure("lshift", self, proc))

\* Proc.__rshift__ and Proc.__lshift__, inherited by the curried procs.
Proc__rshift__(self, proc) == ProcInit(Closure("rshift", self, proc))

Proc__lshift__(self, proc) == ProcInit(Closure("lshift", self, proc))

(***************************************************************************)
(* The callables the caller wraps, as the tests do: unary f1 and g1,       *)
(* binary f2, ternary f3, lambda *a, and hof, a binary function whose      *)
(* result is itself a function.                                            *)
(***************************************************************************)
Callables ==
  {Fn("f1", <<P>>), Fn("g1", <<P>>), Fn("f2", <<P, P>>), Fn("f3", <<P, P, P>>),
   Fn("v", <<Star>>), Fn("hof", <<P, P>>)}

(***************************************************************************)
(* Every parameter list Python accepts, up to MaxParams parameters:        *)
(* positional-only, positional-or-keyword, *rest, keyword-only, **kw in    *)
(* this order, at most one *rest and one **kw (neither with a default),    *)
(* and no positional parameter without a default after one with a default. *)
(***************************************************************************)
Rank(kind) ==
  CASE kind = "POSITIONAL_ONLY" -> 1
    [] kind = "POSITIONAL_OR_KEYWORD" -> 2
    [] kind = "VAR_POSITIONAL" -> 3
    [] kind = "KEYWORD_ONLY" -> 4
    [] kind = "VAR_KEYWORD" -> 5

ValidSig(s) ==
  /\ \A i \in 1..Len(s) :
        s[i].kind \in {"VAR_POSITIONAL", "VAR_KEYWORD"} => ~s[i].has_default
  /\ \A i \in 1..Len(s), j \in 1..Len(s) :
        i < j =>
          /\ Rank(s[i].kind) <= Rank(s[j].kind)
          /\ s[i].kind \in {"VAR_POSITIONAL", "VAR_KEYWORD"} =>
                s[i].kind # s[j].kind
          /\ (Rank(s[j].kind) <= 2 /\ s[i].has_default) => s[j].has_default

Sigs ==
  {s \in UNION {[1..n -> [kind : Kinds, has_default : BOOLEAN]] : n \in 0..MaxParams} :
     ValidSig(s)}

(***************************************************************************)
(* The caller.  ret is the value of the expression evaluated so far, held  *)
(* a variable of the caller, chain the expression that produced ret: each  *)
(* step names the operation, the value it was applied to (the callable,    *)
(* for Proc(callable)), the right operand of >> or <<, and the arguments.  *)
(* A step applied to ret continues the expression; one applied to held     *)
(* starts a new one.  made[i] is the buffer heap[i] had when the           *)
(* operation that created it returned.                                     *)
(***************************************************************************)
Step(op, on, y, args) == [op |-> op, on |-> on, y |-> y, args |-> args]

Extended(x, step) ==
  IF x = ret /\ chain # <<>> THEN Append(chain, step) ELSE <<step>>

Bounded(h) ==
  /\ Len(h) <= MaxObjs
  /\ \A i \in 1..Len(h) : Len(h[i].argv) <= MaxArgv

\* An exception ends the expression: nothing is applied to it.
Finish(out, x, step) ==
  /\ x.t # "err"
  /\ Bounded(out.heap)
  /\ Len(Extended(x, step)) <= MaxChain
  /\ heap' = out.heap
  /\ made' = [i \in 1..Len(out.heap) |->
                IF i <= Len(made) THEN made[i] ELSE out.heap[i].argv]
  /\ ret' = out.ret
  /\ chain' = Extended(x, step)
  /\ UNCHANGED held

Init ==
  /\ heap = <<>>
  /\ made = <<>>
  /\ ret = None
  /\ held = None
  /\ chain = <<>>

\* Proc(callback)
NewProc(callback) ==
  /\ ret' = ProcInit(callback)
  /\ chain' = <<Step("Proc", callback, None, <<>>)>>
  /\ UNCHANGED <<heap, made, held>>

\* x.curry(*args)
Curry(x, args) ==
  Finish(CurryMethod(heap, x, args), x, Step("curry", x, None, args))

\* x.call(*args)
Call(x, args) ==
  Finish(CallMethod(heap, x, args), x, Step("call", x, None, args))

\* x(*args)
Invoke(x, args) ==
  Finish(Apply(heap, x, args), x, Step("invoke", x, None, args))

\* x >> y
RShift(x, y) ==
  /\ ClassOf(heap, x) # "other"
  /\ Finish(Out(heap, Proc__rshift__(x, y)), x, Step("rshift", x, y, <<>>))

\* x << y
LShift(x, y) ==
  /\ ClassOf(heap, x) # "other"
  /\ Finish(Out(heap, Proc__lshift__(x, y)), x, Step("lshift", x, y, <<>>))

\* held = <the expression>: the caller keeps a proc in a variable.
Hold ==
  /\ ClassOf(heap, ret) # "other"
  /\ ret # held
  /\ held' = ret
  /\ UNCHANGED <<heap, made, ret, chain>>

(***************************************************************************)
(* Spec: one expression on a fresh Proc, every operation applied to the    *)
(* result of the one before.                                               *)
(***************************************************************************)
Next ==
  \/ \E c \in Callables : chain = <<>> /\ NewProc(c)
  \/ \E args \in Groups : chain # <<>> /\ Curry(ret, args)
  \/ \E args \in Groups : chain # <<>> /\ Call(ret, args)
  \/ \E args \in Groups : chain # <<>> /\ Invoke(ret, args)

Spec == Init /\ [][Next]_vars

(***************************************************************************)
(* SpecCompose: the caller builds a proc (plain or curried once) and keeps *)
(* it, builds a second one, composes the two, keeps the composition and    *)
(* invokes it any number of times.                                         *)
(***************************************************************************)
Plain(x) == x.t = "Proc" /\ x.callback.t = "fn"

Composed(x) == x.t = "Proc" /\ x.callback.t = "closure"

Operand(x) == Plain(x) \/ x.t = "ref"

\* The callables composed: the unary and binary ones, each application
\* with at most one argument.
ComposeCallables == {c \in Callables : c.id \in {"f1", "g1", "f2"}}

ComposeGroups == {g \in Groups : Len(g) <= 1}

NextCompose ==
  \/ \E c \in ComposeCallables :
       (chain = <<>> \/ (ret = held /\ Operand(held))) /\ NewProc(c)
  \/ \E args \in ComposeGroups : Plain(ret) /\ Len(chain) = 1 /\ Curry(ret, args)
  \/ Operand(ret) /\ Operand(held) /\ RShift(ret, held)
  \/ Operand(ret) /\ Operand(held) /\ LShift(ret, held)
  \/ ((held = None /\ Operand(ret)) \/ Composed(ret)) /\ Hold
  \/ \E x \in {ret, held}, args \in ComposeGroups : Composed(x) /\ Call(x, args)
  \/ \E x \in {ret, held}, args \in ComposeGroups : Composed(x) /\ Invoke(x, args)

SpecCompose == Init /\ [][NextCompose]_vars

(***************************************************************************)
(* SpecArity: a Proc is constructed from a callable of any parameter list. *)
(***************************************************************************)
NextArity == \E s \in Sigs : chain = <<>> /\ NewProc(Fn("f", s))

SpecArity == Init /\ [][NextArity]_vars

(***************************************************************************)
(* SpecObjects: the caller curries a fresh Proc and keeps the curried proc *)
(* in a variable; it applies curry, call and direct invocation to the proc *)
(* it keeps, in any order and any number of times, and may keep the proc   *)
(* an operation returned instead.  The callables are a binary one,         *)
(* lambda *a, and w, declared as lambda x, y, *rest.  The curried procs    *)
(* hold at most MaxTotal arguments together.                               *)
(***************************************************************************)
ObjectCallables ==
  {Fn("f2", <<P, P>>), Fn("v", <<Star>>), Fn("w", <<P, P, Star>>)}

ObjectGroups == {<<>>, <<IntV(1)>>, <<IntV(2)>>, <<IntV(1), IntV(2)>>}

Instance(x) == x.t = "ref"

RECURSIVE TotalArgs(_)
TotalArgs(h) == IF h = <<>> THEN 0 ELSE Len(Head(h).argv) + TotalArgs(Tail(h))

Within == TotalArgs(heap') <= MaxTotal

NextObjects ==
  \/ \E c \in ObjectCallables : chain = <<>> /\ NewProc(c)
  \/ \E args \in ObjectGroups : Plain(ret) /\ Curry(ret, args)
  \/ Instance(ret) /\ Hold
  \/ \E args \in ObjectGroups : Instance(held) /\ Curry(held, args) /\ Within
  \/ \E args \in ObjectGroups : Instance(held) /\ Call(held, args) /\ Within
  \/ \E args \in ObjectGroups : Instance(held) /\ Invoke(held, args) /\ Within

SpecObjects == Init /\ [][NextObjects]_vars

(***************************************************************************)
(* Reading the expression in chain.                                        *)
(***************************************************************************)
Last == chain[Len(chain)]

\* The arguments of steps i..j, in order.
RECURSIVE FlatArgs(_, _)
FlatArgs(i, j) == IF i > j THEN <<>> ELSE chain[i].args \o FlatArgs(i + 1, j)

\* A callable whose parameters are all required positional ones.
Fixed(c) == c.t = "fn" /\ \A i \in 1..Len(c.params) : c.params[i] = P

HasRest(c) == \E i \in 1..Len(c.params) : c.params[i].kind = "VAR_POSITIONAL"

\* The expression is Proc(c).curry(g0)(g1)...(gj), of at least k steps
\* (Proc and curry included).
CurryChain(k) ==
  /\ Len(chain) >= k
  /\ chain[1].op = "Proc"
  /\ chain[2].op = "curry"
  /\ \A i \in 3..Len(chain) : chain[i].op = "invoke"

Callable(v) == v.t \in {"fn", "closure", "Proc", "ref"}

(***************************************************************************)
(* C1.  For a fixed-arity callable f of n required positional parameters,  *)
(* every chain Proc(f).curry(g0)(g1)...(gk), k >= 1, whose groups          *)
(* concatenate to n arguments a1..an with gk non-empty returns f(a1..an):  *)
(* only the accumulated sequence matters, not its grouping.                *)
(***************************************************************************)
C1_GroupingIndependent ==
  (/\ CurryChain(3)
   /\ Fixed(chain[1].on)
   /\ Len(FlatArgs(2, Len(chain))) = Len(chain[1].on.params)
   /\ Last.args # <<>>)
  => ret = CallFn(chain[1].on, FlatArgs(2, Len(chain)))

\* Proc(f3).curry(a)(b)(c) has returned f3(a, b, c).
C1_Witness ==
  /\ CurryChain(4)
  /\ chain[1].on.id = "f3"
  /\ \A i \in 2..4 : Len(chain[i].args) = 1
  /\ ret = Res("f3", FlatArgs(2, 4))

(***************************************************************************)
(* C2.  For a variadic callable v, a chain v.curry(g0)(g1)...(gk)() that   *)
(* ends in a direct invocation with no arguments returns the callable's    *)
(* result on g0 ++ g1 ++ ... ++ gk.                                        *)
(***************************************************************************)
C2_VariadicChainReturnsResult ==
  (/\ CurryChain(3)
   /\ HasRest(chain[1].on)
   /\ Last.args = <<>>)
  => ret = CallFn(chain[1].on, FlatArgs(2, Len(chain)))

(***************************************************************************)
(* C3.  Over-application: once a chain Proc(f).curry(..)(..).. on a        *)
(* fixed-arity f has received arity-many arguments, applying one more      *)
(* argument ends in an error and never in a value.                         *)
(***************************************************************************)
\* The expression applies a further non-empty group after arity-many
\* arguments have been supplied.
OverApplied ==
  /\ CurryChain(3)
  /\ Fixed(chain[1].on)
  /\ Len(FlatArgs(2, Len(chain) - 1)) = Len(chain[1].on.params)
  /\ Last.args # <<>>

\* The claim as stated, for every fixed-arity callable.
C3_OverApplicationFails == OverApplied => ret.t = "err"

\* As amended: for a callable whose result is not itself callable, the
\* extra application raises a TypeError.
C3_OverApplicationOfDataFails ==
  (OverApplied /\ ~Callable(CallFn(chain[1].on, FlatArgs(2, Len(chain) - 1))))
  => (ret.t = "err" /\ ret.cls = "TypeError")

\* Proc(f3).curry(a, b)(c)(d) has raised.
C3_Witness ==
  /\ OverApplied
  /\ chain[1].on.id = "f3"
  /\ Len(chain) = 4
  /\ Len(chain[3].args) = 1
  /\ ret.t = "err"

(***************************************************************************)
(* C4.  For unary procedures f and g and every argument x,                 *)
(* (f >> g).call(x) = g(f(x)) and (f << g).call(x) = f(g(x)).              *)
(***************************************************************************)
UnaryProc(x) == Plain(x) /\ x.callback.params = <<P>>

\* The operator step of the expression (f >> g).call(x) or (f << g).call(x).
Composing == chain[Len(chain) - 1]

\* The expression is (f op g).call(x) for unary procs f and g.
CalledUnaryComposition ==
  /\ Len(chain) >= 3
  /\ Last.op = "call"
  /\ Composing.op \in {"rshift", "lshift"}
  /\ UnaryProc(Composing.on)
  /\ UnaryProc(Composing.y)
  /\ Len(Last.args) = 1

C4_Composition ==
  CalledUnaryComposition =>
    LET f == Composing.on.callback
        g == Composing.y.callback
    IN ret = IF Composing.op = "rshift"
             THEN CallFn(g, <<CallFn(f, Last.args)>>)
             ELSE CallFn(f, <<CallFn(g, Last.args)>>)

\* (Proc(f1) >> Proc(g1)).call(1) has returned g1(f1(1)).
C4_Witness ==
  /\ CalledUnaryComposition
  /\ Composing.op = "rshift"
  /\ Composing.on.callback.id = "f1"
  /\ Composing.y.callback.id = "g1"
  /\ ret = Res("g1", <<Res("f1", <<IntV(1)>>)>>)

(***************************************************************************)
(* C5.  Composing curried fixed-arity procs p = Proc(f).curry(A) and       *)
(* q = Proc(g).curry(B) behaves like composing the plain residual procs    *)
(* rest |-> f(A ++ rest) and rest |-> g(B ++ rest): every invocation of    *)
(* the composition, the first and every later one, returns what the plain  *)
(* composition returns for the same arguments.  (Stated for invocations    *)
(* that pass the inner proc exactly its residual arity, the outer proc     *)
(* lacking one argument.)                                                  *)
(***************************************************************************)
C5_CurriedCompositionIsPlain ==
  (/\ chain # <<>>
   /\ Last.op = "call"
   /\ Composed(Last.on)
   /\ Last.on.callback.self.t = "ref"
   /\ Last.on.callback.proc.t = "ref"
   /\ Last.on.callback.self # Last.on.callback.proc)
  => LET c == Last.on.callback
         inner == IF c.op = "rshift" THEN c.self.id ELSE c.proc.id
         outer == IF c.op = "rshift" THEN c.proc.id ELSE c.self.id
         r == CallFn(heap[inner].callback, made[inner] \o Last.args)
     IN (/\ heap[inner].cls = "FCurriedProc"
         /\ heap[outer].cls = "FCurriedProc"
         /\ Len(made[inner]) + Len(Last.args) = heap[inner].arity
         /\ Len(made[outer]) + 1 = heap[outer].arity)
        => ret = IF r.t = "err"
                 THEN r
                 ELSE CallFn(heap[outer].callback, made[outer] \o <<r>>)

(***************************************************************************)
(* C6.  Double currying: Proc(f).curry(A).curry(B) on a fixed-arity f is   *)
(* equivalent to Proc(f).curry(A ++ B): the same kind of result, with the  *)
(* same buffer.                                                            *)
(***************************************************************************)
\* The expression is Proc(f).curry(A).curry(B), f of fixed arity.
DoubleCurried ==
  /\ Len(chain) = 3
  /\ chain[1].op = "Proc"
  /\ Fixed(chain[1].on)
  /\ chain[2].op = "curry"
  /\ chain[3].op = "curry"

\* Proc(f).curry(A ++ B), evaluated on an empty heap.
CurriedAtOnce == Proc_curry(<<>>, ProcInit(chain[1].on), FlatArgs(2, 3))

C6_DoubleCurryIsCurry ==
  DoubleCurried =>
    (ret.t = "ref" /\ heap[ret.id] = CurriedAtOnce.heap[1])

(***************************************************************************)
(* C7.  Currying an already-curried fixed-arity proc creates a second      *)
(* curried version of the callable that can still be called: for ternary   *)
(* b, c = b.curry(x).curry(y, z) is a curried procedure and c.call(w)      *)
(* returns b(y, z, w).                                                     *)
(***************************************************************************)
C7_SecondCurriedVersion ==
  (/\ Len(chain) >= 3
   /\ chain[1].op = "Proc"
   /\ Fixed(chain[1].on)
   /\ Len(chain[1].on.params) = 3
   /\ chain[2].op = "curry" /\ Len(chain[2].args) = 1
   /\ chain[3].op = "curry" /\ Len(chain[3].args) = 2)
  => /\ Len(chain) = 3 => (ret.t = "ref" /\ heap[ret.id].cls = "FCurriedProc")
     /\ (Len(chain) = 4 /\ Last.op = "call" /\ Len(Last.args) = 1)
          => ret = CallFn(chain[1].on, FlatArgs(3, 4))

(***************************************************************************)
(* C8.  For every callable without a *rest parameter, Proc(f).arity is the *)
(* number of its positional-or-keyword parameters that have no default,    *)
(* and is_variadic is false.                                               *)
(***************************************************************************)
\* The positional-or-keyword parameters without a default.
RequiredPositional(params) ==
  {i \in 1..Len(params) :
     params[i].kind = "POSITIONAL_OR_KEYWORD" /\ ~params[i].has_default}

C8_ArityCountsRequired ==
  (Len(chain) = 1 /\ chain[1].op = "Proc" /\ ~HasRest(chain[1].on))
  => /\ ret.arity = Cardinality(RequiredPositional(chain[1].on.params))
     /\ ret.is_variadic = FALSE

(***************************************************************************)
(* C9.  is_variadic is true iff the callable declares a *rest parameter,   *)
(* and then arity is the number of its required positional-or-keyword      *)
(* parameters plus exactly 1 for the rest parameter.                       *)
(***************************************************************************)
C9_VariadicArity ==
  (Len(chain) = 1 /\ chain[1].op = "Proc")
  => /\ ret.is_variadic = HasRest(chain[1].on)
     /\ HasRest(chain[1].on) =>
          ret.arity = Cardinality(RequiredPositional(chain[1].on.params)) + 1

(***************************************************************************)
(* C10.  Proc.curry returns a VCurriedProc iff the wrapped callable is     *)
(* variadic and an FCurriedProc otherwise, and every curried proc reached  *)
(* through later curry / call / direct-invocation steps reports the        *)
(* is_variadic and arity of the Proc it was curried from.                  *)
(***************************************************************************)
C10_DispatchAndMetadata ==
  (chain # <<>> /\ chain[1].op = "Proc")
  => \A i \in 1..Len(heap) :
       /\ heap[i].cls = "VCurriedProc" <=> HasRest(chain[1].on)
       /\ heap[i].cls = "FCurriedProc" <=> ~HasRest(chain[1].on)
       /\ heap[i].is_variadic = ProcInit(chain[1].on).is_variadic
       /\ heap[i].arity = ProcInit(chain[1].on).arity
       /\ heap[i].callback = chain[1].on

\* Proc(v).curry(..)(..).curry(..): two variadic curried procs, the first
\* one having accumulated arguments through a direct invocation.
C10_Witness ==
  /\ Len(chain) = 4
  /\ chain[1].op = "Proc" /\ HasRest(chain[1].on)
  /\ chain[3].op = "invoke" /\ chain[3].args # <<>>
  /\ chain[4].op = "curry"
  /\ Len(heap) = 2
  /\ heap[2].cls = "VCurriedProc" /\ heap[2].is_variadic

(***************************************************************************)
(* Reading one operation on a curried proc: the step it appended to chain, *)
(* the receiver before the operation and after it.                         *)
(***************************************************************************)
Done == chain'[Len(chain')]

\* The step is x.op(args) on a curried proc x of class cls.
Acted(op, cls) ==
  /\ held' = held
  /\ chain' # <<>>
  /\ Done.op = op
  /\ Done.on.t = "ref"
  /\ heap[Done.on.id].cls = cls

Receiver == heap[Done.on.id]

ReceiverAfter == heap'[Done.on.id]

\* Every curried proc other than the receiver is as it was.
OthersUnchanged ==
  \A i \in 1..Len(heap) : i # Done.on.id => heap'[i] = heap[i]

C12_CallInvokesOnWholeBuffer ==
  [][Acted("call", "VCurriedProc") =>
       /\ ret' = CallFn(Receiver.callback, Receiver.argv \o Done.args)
       /\ ReceiverAfter.argv = Receiver.argv \o Done.args
       /\ Len(heap') = Len(heap)
       /\ OthersUnchanged]_vars

\* p.call(b) on a kept variadic proc that held arguments before the call
\* has returned v(A ++ <<b>>).
C12_Witness ==
  /\ Instance(held)
  /\ heap[held.id].cls = "VCurriedProc"
  /\ chain # <<>>
  /\ Last.op = "call" /\ Last.on = held /\ Len(Last.args) = 1
  /\ Len(heap[held.id].argv) >= 2
  /\ ret = Res("v", heap[held.id].argv)

(***************************************************************************)
(* C13.  curry(args) on a VCurriedProc with buffer A returns a new,        *)
(* distinct VCurriedProc of the same callable whose buffer is A ++ args,   *)
(* does not invoke the callable, and leaves the receiver (and every other  *)
(* instance) as it was; an operation applied to one variadic instance      *)
(* never changes the buffer of another.                                    *)
(***************************************************************************)
C13_CurryMakesIndependentInstance ==
  [][/\ Acted("curry", "VCurriedProc") =>
          /\ ret' = Ref(Len(heap) + 1)
          /\ Len(heap') = Len(heap) + 1
          /\ heap'[Len(heap')].cls = "VCurriedProc"
          /\ heap'[Len(heap')].callback = Receiver.callback
          /\ heap'[Len(heap')].argv = Receiver.argv \o Done.args
          /\ \A i \in 1..Len(heap) : heap'[i] = heap[i]
     /\ \A op \in {"curry", "call", "invoke"} :
          Acted(op, "VCurriedProc") => OthersUnchanged]_vars

\* q = p.curry() was kept and q(b) applied: q holds p's arguments and b,
\* and p still holds what it held.
C13_Witness ==
  /\ Len(heap) >= 2
  /\ heap[1].cls = "VCurriedProc"
  /\ held = Ref(2)
  /\ chain # <<>>
  /\ Last.op = "invoke" /\ Last.on = held /\ Last.args # <<>>
  /\ heap[1].argv = made[1]
  /\ heap[1].argv # <<>>
  /\ made[2] = heap[1].argv
  /\ heap[2].argv = heap[1].argv \o Last.args

(***************************************************************************)
(* C14.  For an FCurriedProc with buffer A, call(args) and direct          *)
(* invocation invoke the wrapped callable exactly when                     *)
(* len(A ++ args) >= arity, passing it A ++ args and returning its result; *)
(* below arity the callable is not invoked and the identical receiver is   *)
(* returned.  Either way the receiver's buffer becomes A ++ args and no    *)
(* other instance changes.                                                 *)
(***************************************************************************)
C14_ThresholdOfInvocation ==
  [][\A op \in {"call", "invoke"} :
       Acted(op, "FCurriedProc") =>
         LET argv == Receiver.argv \o Done.args
         IN /\ ReceiverAfter.argv = argv
            /\ Len(heap') = Len(heap)
            /\ OthersUnchanged
            /\ ret' = IF Len(argv) >= Receiver.arity
                      THEN CallFn(Receiver.callback, argv)
                      ELSE Done.on]_vars

\* p(b) on a kept binary proc holding one argument has returned f2(a, b).
C14_Witness ==
  /\ Instance(held)
  /\ heap[held.id].cls = "FCurriedProc"
  /\ chain # <<>>
  /\ Last.op = "invoke" /\ Last.on = held /\ Len(Last.args) = 1
  /\ Len(heap[held.id].argv) = heap[held.id].arity
  /\ ret = Res("f2", heap[held.id].argv)

(***************************************************************************)
(* C15.  curry(args) on an FCurriedProc discards the arguments the         *)
(* instance accumulated through prior direct calls and restarts from the   *)
(* buffer it was constructed with: after p = Proc(f).curry(A) and a direct *)
(* call p(B) that left p pending, p.curry(C) applies C on top of A, not on *)
(* top of A ++ B.                                                          *)
(***************************************************************************)
\* p.curry(args) has applied args on top of the buffer base: below arity
\* it returned a new instance holding base ++ args, from arity on the
\* callable's result on base ++ args.
CurriedOnTopOf(base) ==
  LET argv == base \o Done.args
  IN IF Len(argv) < Receiver.arity
     THEN /\ ret' = Ref(Len(heap) + 1)
          /\ heap'[Len(heap')].argv = argv
     ELSE ret' = CallFn(Receiver.callback, argv)

C16_ResolvedRejectsMoreArguments ==
  [][\A op \in {"call", "invoke"} :
       (/\ Acted(op, "FCurriedProc")
        /\ Fixed(Receiver.callback)
        /\ Len(Receiver.argv) >= Receiver.arity
        /\ Done.args # <<>>)
       => /\ ReceiverAfter.argv = Receiver.argv \o Done.args
          /\ ret' = Err("TypeError", "arity")]_vars

\* p.call(c) on a kept binary proc that already held two arguments has
\* raised, and p holds all three.
C16_Witness ==
  /\ Instance(held)
  /\ heap[held.id].cls = "FCurriedProc"
  /\ chain # <<>>
  /\ Last.op = "call" /\ Last.on = held /\ Len(Last.args) = 1
  /\ Len(heap[held.id].argv) = heap[held.id].arity + 1
  /\ ret = Err("TypeError", "arity")

(***************************************************************************)
(* C17.  Calling an FCurriedProc with no arguments when its buffer length  *)
(* is already at or above arity re-invokes the callable with the same      *)
(* buffer: nothing changes, the call returns the callable's result on the  *)
(* buffer, and a repeated call without arguments returns the same again.   *)
(***************************************************************************)
C17_EmptyCallReinvokes ==
  [][\A op \in {"call", "invoke"} :
       (/\ Acted(op, "FCurriedProc")
        /\ Len(Receiver.argv) >= Receiver.arity
        /\ Done.args = <<>>)
       => /\ heap' = heap
          /\ ret' = CallFn(Receiver.callback, Receiver.argv)
          /\ CallMethod(heap', Done.on, <<>>) = Out(heap', ret')
          /\ Apply(heap', Done.on, <<>>) = Out(heap', ret')]_vars

\* p resolved through a direct call, and p.call() has returned f2(a, b)
\* once more.
C17_Witness ==
  /\ Instance(held)
  /\ heap[held.id].cls = "FCurriedProc"
  /\ chain # <<>>
  /\ Last.op = "call" /\ Last.on = held /\ Last.args = <<>>
  /\ Len(made[held.id]) < heap[held.id].arity
  /\ Len(heap[held.id].argv) = heap[held.id].arity
  /\ ret = Res("f2", heap[held.id].argv)

(***************************************************************************)
(* C18.  For every curried proc and every operation applied to any         *)
(* instance (curry, call, direct invocation, failing ones included), the   *)
(* instance's buffer before the operation is a prefix of its buffer after  *)
(* it: buffers only grow by appending, and no instance disappears.         *)
(***************************************************************************)
IsPrefix(a, b) == Len(a) <= Len(b) /\ SubSeq(b, 1, Len(a)) = a

C18_BuffersOnlyGrow ==
  [][\A i \in 1..Len(heap) :
       /\ i <= Len(heap')
       /\ IsPrefix(heap[i].argv, heap'[i].argv)]_vars

\* p = Proc(f2).curry(a, b) was invoked as p(c): the call raised and p
\* holds a, b, c.
C18_Witness ==
  /\ Instance(held)
  /\ heap[held.id].cls = "FCurriedProc"
  /\ chain # <<>>
  /\ Last.op = "invoke" /\ Last.on = held /\ Last.args # <<>>
  /\ Len(made[held.id]) = heap[held.id].arity
  /\ heap[held.id].argv = made[held.id] \o Last.args
  /\ ret.t = "err"

(***************************************************************************)
(* C19.  curry(args) on an FCurriedProc leaves the receiver's own buffer   *)
(* unchanged, so branches built from the same partial base are             *)
(* independent: each p.curry(X) gives the result it would give if no other *)
(* branch had been made (X applied on top of p's buffer), and p and the    *)
(* branches made earlier are as they were.                                 *)
(***************************************************************************)
C19_BranchesAreIndependent ==
  [][Acted("curry", "FCurriedProc") =>
       /\ \A i \in 1..Len(heap) : heap'[i] = heap[i]
       /\ CurriedOnTopOf(Receiver.argv)]_vars

\* Two different branches p.curry(B) and p.curry(C) were made from the
\* kept p, which still holds the buffer it was constructed with.
C19_Witness ==
  /\ Len(heap) = 3
  /\ held = Ref(1)
  /\ heap[1].cls = "FCurriedProc"
  /\ heap[1].argv = made[1]
  /\ chain # <<>>
  /\ Last.op = "curry" /\ Last.on = held /\ Last.args # <<>>
  /\ heap[3].argv = heap[1].argv \o Last.args
  /\ made[2] # made[3]
  /\ heap[2].argv = made[2]

(***************************************************************************)
(* C20.  When call on a curried proc of either class invokes the wrapped   *)
(* callable and the callable fails, the failure reaches the caller         *)
(* unaltered and the arguments of the failed call stay appended to the     *)
(* instance's buffer (no rollback), so the next call on the instance       *)
(* invokes the callable with the failed call's arguments included.         *)
(***************************************************************************)
\* The call invoked the callable: always for a VCurriedProc, from arity on
\* for an FCurriedProc.
Invoked ==
  \/ Receiver.cls = "VCurriedProc"
  \/ Len(Receiver.argv \o Done.args) >= Receiver.arity

C20_FailedCallKeepsArguments ==
  [][\A cls \in {"FCurriedProc", "VCurriedProc"} :
       (/\ Acted("call", cls)
        /\ Invoked
        /\ CallFn(Receiver.callback, Receiver.argv \o Done.args).t = "err")
       => LET argv == Receiver.argv \o Done.args
          IN /\ ret' = CallFn(Receiver.callback, argv)
             /\ ReceiverAfter.argv = argv
             /\ \A next \in ObjectGroups :
                  CallMethod(heap', Done.on, next).ret
                    = CallFn(Receiver.callback, argv \o next)]_vars

\* p.call(a) on a kept proc of w (lambda x, y, *rest) holding nothing has
\* raised, and p holds a.
C20_Witness ==
  /\ Instance(held)
  /\ heap[held.id].cls = "VCurriedProc"
  /\ heap[held.id].callback.id = "w"
  /\ chain # <<>>
  /\ Last.op = "call" /\ Last.on = held /\ Len(Last.args) = 1
  /\ heap[held.id].argv = Last.args
  /\ ret = Err("TypeError", "arity")

====
